---- MODULE Spec2Model ----
(***************************************************************************)
(* Model of MagnoRelSim2D (src/magno_rel.py): the 2-D toy field simulator  *)
(* with primary field Bz and emergent fields Ex, Ey, and its only mutating *)
(* operation step().                                                       *)
(*                                                                         *)
(* Numbers.  The fields are float64 arrays.  They are modelled as decimal  *)
(* fixed-point numbers: the integer n stands for n / Scale, and every      *)
(* multiplication, division and square root is rounded to the nearest      *)
(* representable value, the way each float64 operation is rounded.         *)
(* Arrays are functions from index pairs <<i, j>> (0-based, as in numpy).  *)
(***************************************************************************)
EXTENDS Integers, Sequences, FiniteSets, TLC

VARIABLES
  sim,         \* the MagnoRelSim2D object: its parameters, Ex, Ey, Bz, energy_hist
  status,      \* "ready", or the exception __init__ ended with
  calls,       \* number of step calls made so far
  returned,    \* number of step calls that returned normally
  src_errors,  \* number of step calls ended by an exception of the source callback
  last,        \* the last call: its arguments, its outcome, the object before it
  const_run    \* every call so far was step(const source, t = index of the call)

vars == <<sim, status, calls, returned, src_errors, last, const_run>>

(***************************************************************************)
(* Bounds of the model.                                                    *)
(***************************************************************************)
MaxSteps == 2   \* step calls explored per simulator
SrcSteps == 3   \* the step index from which the demo-shaped sources return 0.0
Digits == 2     \* decimal digits kept after the point by the arithmetic

(***************************************************************************)
(* float64 arithmetic, as rounded fixed point.                             *)
(***************************************************************************)
Scale == 10 ^ Digits
One == Scale

RoundDiv(n, d) ==
  LET q(a, b) == (2 * a + b) \div (2 * b)
  IN  IF d < 0
        THEN (IF n <= 0 THEN q(-n, -d) ELSE -q(n, -d))
        ELSE (IF n >= 0 THEN q(n, d) ELSE -q(-n, d))

FMul(a, b) == RoundDiv(a * b, Scale)
FDiv(a, b) == RoundDiv(a * Scale, b)

RECURSIVE ISqrtIter(_, _)
ISqrtIter(x, r) ==
  LET r2 == (r + x \div r) \div 2
  IN  IF r2 >= r THEN r ELSE ISqrtIter(x, r2)

ISqrt(x) == IF x <= 0 THEN 0 ELSE ISqrtIter(x, x)

FSqrt(a) ==
  LET x == a * Scale
      r == ISqrt(x)
  IN  IF x - r * r > r THEN r + 1 ELSE r

(***************************************************************************)
(* numpy arrays: shape, slicing, elementwise operations.                   *)
(***************************************************************************)
Idx(R, C) == (0 .. (R - 1)) \X (0 .. (C - 1))

zeros(R, C) == [p \in Idx(R, C) |-> 0]

SetMax(S) == CHOOSE m \in S : \A k \in S : k <= m

Rows(A) == IF DOMAIN A = {} THEN 0 ELSE 1 + SetMax({p[1] : p \in DOMAIN A})
Cols(A) == IF DOMAIN A = {} THEN 0 ELSE 1 + SetMax({p[2] : p \in DOMAIN A})

\* A slice bound k on an axis of length n, as Python resolves it.
Clamp(k, n) ==
  IF k < 0 THEN (IF k + n < 0 THEN 0 ELSE k + n)
  ELSE IF k > n THEN n ELSE k

\* A[r0:r1, c0:c1], a 0-based array.
Slice(A, r0, r1, c0, c1) ==
  LET a0 == Clamp(r0, Rows(A))
      a1 == Clamp(r1, Rows(A))
      b0 == Clamp(c0, Cols(A))
      b1 == Clamp(c1, Cols(A))
  IN  [p \in Idx(a1 - a0, b1 - b0) |-> A[<<a0 + p[1], b0 + p[2]>>]]

\* A[r0:r1, c0:c1] = V, in place.
SetSlice(A, r0, r1, c0, c1, V) ==
  LET a0 == Clamp(r0, Rows(A))
      a1 == Clamp(r1, Rows(A))
      b0 == Clamp(c0, Cols(A))
      b1 == Clamp(c1, Cols(A))
  IN  [p \in DOMAIN A |->
         IF a0 <= p[1] /\ p[1] < a1 /\ b0 <= p[2] /\ p[2] < b1
           THEN V[<<p[1] - a0, p[2] - b0>>]
           ELSE A[p]]

AAdd(A, B) == [p \in DOMAIN A |-> A[p] + B[p]]
ASub(A, B) == [p \in DOMAIN A |-> A[p] - B[p]]
AMul(A, B) == [p \in DOMAIN A |-> FMul(A[p], B[p])]
ADiv(A, B) == [p \in DOMAIN A |-> FDiv(A[p], B[p])]
ANeg(A) == [p \in DOMAIN A |-> -A[p]]
ASq(A) == [p \in DOMAIN A |-> FMul(A[p], A[p])]
SAdd(s, A) == [p \in DOMAIN A |-> s + A[p]]
SMul(s, A) == [p \in DOMAIN A |-> FMul(s, A[p])]
ADivS(A, s) == [p \in DOMAIN A |-> FDiv(A[p], s)]

RECURSIVE SumTo(_, _, _)
SumTo(A, i, C) ==
  LET RECURSIVE RowSum(_)
      RowSum(j) == IF j < 0 THEN 0 ELSE A[<<i, j>>] + RowSum(j - 1)
  IN  IF i < 0 THEN 0 ELSE RowSum(C - 1) + SumTo(A, i - 1, C)

\* np.mean(A)
mean(A) == RoundDiv(SumTo(A, Rows(A) - 1, Cols(A)), Cardinality(DOMAIN A))

(***************************************************************************)
(* Program constants: the defaults of _edge_damp(A, margin=4, factor=0.9). *)
(***************************************************************************)
margin == 4
factor == RoundDiv(9 * Scale, 10)

(***************************************************************************)
(* MagnoRelSim2D.__init__: the object after construction.  np.zeros raises *)
(* ValueError on a negative dimension; nothing else is validated.          *)
(***************************************************************************)
init(nx, ny, dx, dy, dt, c, k_rel, alpha_emerge, beta_sat, sigma_damp) ==
  LET ok == nx >= 0 /\ ny >= 0
      R(n) == IF ok THEN n ELSE 0
  IN  [self |-> [nx |-> nx, ny |-> ny, dx |-> dx, dy |-> dy, dt |-> dt,
                 c |-> c, k_rel |-> k_rel, alpha_emerge |-> alpha_emerge,
                 beta_sat |-> beta_sat, sigma_damp |-> sigma_damp,
                 Ex |-> zeros(R(nx + 1), R(ny)),
                 Ey |-> zeros(R(nx), R(ny + 1)),
                 Bz |-> zeros(R(nx + 1), R(ny + 1)),
                 energy_hist |-> << >>],
       raised |-> IF ok THEN "none" ELSE "ValueError"]

\* c_eff(): the bare scalar c when k_rel == 0.0, an array shaped like Bz otherwise.
c_eff(self) ==
  IF self.k_rel = 0
    THEN [kind |-> "scalar", val |-> self.c]
    ELSE [kind |-> "array",
          val |-> [p \in DOMAIN self.Bz |->
                     FDiv(self.c, FSqrt(One + FMul(self.k_rel, FMul(self.Bz[p], self.Bz[p]))))]]

\* curl_E with the Ey window taken one column to the left.
curl_E_shifted(self) ==
  LET dEx_dy == ADivS(ASub(Slice(self.Ex, 1, self.nx, 1, self.ny),
                           Slice(self.Ex, 1, self.nx, 0, self.ny - 1)), self.dy)
      dEy_dx == ADivS(ASub(Slice(self.Ey, 1, self.nx, 0, self.ny - 1),
                           Slice(self.Ey, 0, self.nx - 1, 0, self.ny - 1)), self.dx)
  IN  ASub(dEx_dy, dEy_dx)

curl_E(self) ==
  LET dEx_dy == ADivS(ASub(Slice(self.Ex, 1, self.nx, 1, self.ny),
                           Slice(self.Ex, 1, self.nx, 0, self.ny - 1)), self.dy)
      dEy_dx == ADivS(ASub(Slice(self.Ey, 1, self.nx, 1, self.ny),
                           Slice(self.Ey, 0, self.nx - 1, 1, self.ny)), self.dx)
  IN  ASub(dEx_dy, dEy_dx)

curl_B(self) ==
  LET R == Rows(self.Bz)
      C == Cols(self.Bz)
      dB_dy_for_Ex == ADivS(ASub(Slice(self.Bz, 0, R, 1, C), Slice(self.Bz, 0, R, 0, -1)), self.dy)
      dB_dx_for_Ey == ADivS(ASub(Slice(self.Bz, 1, R, 0, C), Slice(self.Bz, 0, -1, 0, C)), self.dx)
  IN  <<dB_dy_for_Ex, ANeg(dB_dx_for_Ey)>>

\* A[r0:r1, c0:c1] *= f
ScaleSlice(A, r0, r1, c0, c1, f) ==
  SetSlice(A, r0, r1, c0, c1, SMul(f, Slice(A, r0, r1, c0, c1)))

\* Edge damping as a single mask: every cell of the border region scaled once.
edge_damp_mask(A, m, f) ==
  LET R == Rows(A)
      C == Cols(A)
  IN  [p \in DOMAIN A |->
         IF p[1] < m \/ p[1] >= R - m \/ p[2] < m \/ p[2] >= C - m
           THEN FMul(f, A[p]) ELSE A[p]]

edge_damp(A, m, f) ==
  LET R == Rows(A)
      C == Cols(A)
      A1 == ScaleSlice(A, 0, m, 0, C, f)
      A2 == ScaleSlice(A1, -m, R, 0, C, f)
      A3 == ScaleSlice(A2, 0, R, 0, m, f)
  IN  ScaleSlice(A3, 0, R, -m, C, f)

(***************************************************************************)
(* The caller's source callbacks apply_source(t, Bz).  "const" and "pulse" *)
(* follow the demos' shape (scalar 0.0 from step src_steps on, an array    *)
(* before); "echo" depends on the Bz it is handed; "raises" fails.         *)
(***************************************************************************)
Sources == {"None", "const", "pulse", "echo", "raises"}

source(kind, t, Bz) ==
  CASE kind = "const" ->
         IF t >= SrcSteps THEN [kind |-> "scalar", val |-> 0]
         ELSE [kind |-> "array", val |-> [p \in DOMAIN Bz |-> One]]
    [] kind = "pulse" ->
         IF t >= SrcSteps THEN [kind |-> "scalar", val |-> 0]
         ELSE [kind |-> "array",
               val |-> [p \in DOMAIN Bz |->
                          IF p = <<Rows(Bz) \div 2, Cols(Bz) \div 2>> THEN One
                          ELSE IF p = <<0, 0>> THEN One \div 2
                          ELSE 0]]
    [] kind = "echo" -> [kind |-> "array", val |-> Bz]
    [] OTHER -> [kind |-> "raise", val |-> 0]

(***************************************************************************)
(* MagnoRelSim2D.step.  The result is the object after the call and the    *)
(* exception the call ended with ("none" for a normal return).             *)
(***************************************************************************)
\* Lines 45-49: the saturating, damped Euler update of Ex and Ey.
emerge(self) ==
  LET cb == curl_B(self)
      dB_dy_for_Ex == cb[1]
      dB_dx_for_Ey == cb[2]
      sat_Ex == SAdd(One, SMul(self.beta_sat, ASq(self.Ex)))
      sat_Ey == SAdd(One, SMul(self.beta_sat, ASq(self.Ey)))
  IN  [self EXCEPT
         !.Ex = AAdd(self.Ex, SMul(self.dt, ASub(ADiv(SMul(self.alpha_emerge, dB_dy_for_Ex), sat_Ex),
                                               SMul(self.sigma_damp, self.Ex)))),
         !.Ey = AAdd(self.Ey, SMul(self.dt, ASub(ADiv(SMul(self.alpha_emerge, dB_dx_for_Ey), sat_Ey),
                                               SMul(self.sigma_damp, self.Ey))))]

\* Lines 51-56 with the energy entry overwriting the history instead of extending it.
damp_and_overwrite(self) ==
  LET Ex2 == edge_damp(self.Ex, margin, factor)
      Ey2 == edge_damp(self.Ey, margin, factor)
      Bz2 == edge_damp(self.Bz, margin, factor)
      energy == mean(ASq(Bz2)) + mean(ASq(Ex2)) + mean(ASq(Ey2))
  IN  [self EXCEPT !.Ex = Ex2, !.Ey = Ey2, !.Bz = Bz2,
                   !.energy_hist = << energy >>]

\* Lines 51-56: edge damping of Ex, Ey, Bz and the energy append.
damp_and_log(self) ==
  LET Ex2 == edge_damp(self.Ex, margin, factor)
      Ey2 == edge_damp(self.Ey, margin, factor)
      Bz2 == edge_damp(self.Bz, margin, factor)
      energy == mean(ASq(Bz2)) + mean(ASq(Ex2)) + mean(ASq(Ey2))
  IN  [self EXCEPT !.Ex = Ex2, !.Ey = Ey2, !.Bz = Bz2,
                   !.energy_hist = Append(self.energy_hist, energy)]

\* Line 40 with the written window starting at node (0, 0) instead of (1, 1).
update_Bz_shifted(self, ce, curlE) ==
  LET inc == AMul(SMul(self.dt, ASq(Slice(ce, 1, self.nx, 1, self.ny))), curlE)
  IN  [self EXCEPT !.Bz = SetSlice(self.Bz, 0, self.nx - 1, 0, self.ny - 1,
                             AAdd(Slice(self.Bz, 0, self.nx - 1, 0, self.ny - 1), inc))]

\* Line 40: Bz[1:nx, 1:ny] += dt * (c_eff[1:nx, 1:ny]**2) * curlE
update_Bz(self, ce, curlE) ==
  LET inc == AMul(SMul(self.dt, ASq(Slice(ce, 1, self.nx, 1, self.ny))), curlE)
  IN  [self EXCEPT !.Bz = SetSlice(self.Bz, 1, self.nx, 1, self.ny,
                             AAdd(Slice(self.Bz, 1, self.nx, 1, self.ny), inc))]

\* Lines 42-43: the source injection, given what the callback returned.
inject(self, ret) ==
  [self EXCEPT !.Bz = IF ret.kind = "scalar" THEN SAdd(ret.val, self.Bz)
                      ELSE AAdd(self.Bz, ret.val)]

\* step with the source called and injected before c_eff and curl_E are taken.
step_source_first(self, apply_source, t) ==
  LET ret == IF apply_source = "None"
               THEN [kind |-> "scalar", val |-> 0]
               ELSE source(apply_source, t, self.Bz)
      s0 == IF apply_source = "None" \/ ret.kind = "raise" THEN self ELSE inject(self, ret)
      ce == c_eff(s0)
      curlE == curl_E(s0)
  IN  IF ce.kind # "array"
        THEN [self |-> self, raised |-> "TypeError", undamped |-> self]
        ELSE
          IF ret.kind = "raise"
            THEN [self |-> update_Bz(self, ce.val, curlE), raised |-> "SourceError",
                  undamped |-> update_Bz(self, ce.val, curlE)]
            ELSE
              LET s3 == emerge(update_Bz(s0, ce.val, curlE))
              IN  [self |-> damp_and_log(s3), raised |-> "none", undamped |-> s3]

\* The field "undamped" exposes the arrays as they are handed to _edge_damp.
step(self, apply_source, t) ==
  LET ce == c_eff(self)
      curlE == curl_E(self)
  IN  IF ce.kind # "array"
        THEN [self |-> self, raised |-> "TypeError", undamped |-> self]
        ELSE
          LET s1 == update_Bz(self, ce.val, curlE)
              ret == IF apply_source = "None"
                       THEN [kind |-> "scalar", val |-> 0]
                       ELSE source(apply_source, t, s1.Bz)
          IN  IF ret.kind = "raise"
                THEN [self |-> s1, raised |-> "SourceError", undamped |-> s1]
                ELSE
                  LET s2 == IF apply_source = "None" THEN s1 ELSE inject(s1, ret)
                      s3 == emerge(s2)
                  IN  [self |-> damp_and_log(s3), raised |-> "none", undamped |-> s3]

(***************************************************************************)
(* Construction inputs.                                                    *)
(***************************************************************************)
Big == 2 * margin + 1

SmallDims == {<<1, 1>>, <<2, 1>>, <<2, 2>>, <<3, 2>>}

Phys(dx, dy, dt, c, k, a, b, s) ==
  [dx |-> dx, dy |-> dy, dt |-> dt, c |-> c, k_rel |-> k,
   alpha_emerge |-> a, beta_sat |-> b, sigma_damp |-> s]

SmallPhys ==
  {Phys(One, One, One, One, k, a, b, s) :
      k \in {0, One}, a \in {0, One}, b \in {0, One}, s \in {0, One \div 2}}
  \cup {Phys(2 * One, One, One \div 2, 2 * One, One, One, One, 0),
        Phys(One, 2 * One, One, One, 2 * One, 2 * One, 0, One \div 2),
        Phys(One, One, 0, One, One, One, 0, 0)}

BigPhys ==
  {Phys(One, One, One, One, 0, 0, 0, 0),
   Phys(One, One, One, One, One, 0, 0, 0),
   Phys(One, 2 * One, One, One, One, One, One, One \div 2)}

Configs ==
  (SmallDims \X SmallPhys) \cup ({<<Big, Big>>} \X BigPhys)
  \cup {<<<<-1, 1>>, Phys(One, One, One, One, One, 0, 0, 0)>>}

(***************************************************************************)
(* The state machine: a simulator is constructed, then driven by step.     *)
(***************************************************************************)
Init ==
  \E cf \in Configs :
    LET d == cf[1]
        ph == cf[2]
        r == init(d[1], d[2], ph.dx, ph.dy, ph.dt, ph.c, ph.k_rel,
                  ph.alpha_emerge, ph.beta_sat, ph.sigma_damp)
    IN  /\ sim = r.self
        /\ status = (IF r.raised = "none" THEN "ready" ELSE r.raised)
        /\ calls = 0
        /\ returned = 0
        /\ src_errors = 0
        /\ last = [src |-> "new", t |-> 0, raised |-> r.raised, pre |-> r.self,
                   undamped |-> r.self]
        /\ const_run = TRUE

Step(apply_source, t) ==
  /\ status = "ready"
  /\ calls < MaxSteps
  /\ LET r == step(sim, apply_source, t)
     IN  /\ sim' = r.self
         /\ returned' = (IF r.raised = "none" THEN returned + 1 ELSE returned)
         /\ src_errors' = (IF r.raised = "SourceError" THEN src_errors + 1 ELSE src_errors)
         /\ last' = [src |-> apply_source, t |-> t, raised |-> r.raised, pre |-> sim,
                     undamped |-> r.undamped]
  /\ calls' = calls + 1
  /\ const_run' = (const_run /\ apply_source = "const" /\ t = calls)
  /\ UNCHANGED status

Next == \E apply_source \in Sources : \E t \in {calls, SrcSteps} : Step(apply_source, t)

Spec == Init /\ [][Next]_vars

(***************************************************************************)
(* Vocabulary of the properties.                                           *)
(***************************************************************************)
\* The construction preconditions of the specification.
Valid(s) == s.nx >= 1 /\ s.ny >= 1 /\ s.dx > 0 /\ s.dy > 0 /\ s.dt > 0

Stepped == last.src # "new"
Completed == Stepped /\ last.raised = "none"
pre == last.pre

\* The last call had no source, or a source that returned the scalar 0.0.
NoInjection ==
  \/ last.src = "None"
  \/ last.src \in {"const", "pulse"} /\ last.t >= SrcSteps

FieldNames == {"Ex", "Ey", "Bz"}

Shape(s, f) ==
  CASE f = "Ex" -> <<s.nx + 1, s.ny>>
    [] f = "Ey" -> <<s.nx, s.ny + 1>>
    [] f = "Bz" -> <<s.nx + 1, s.ny + 1>>

B2I(b) == IF b THEN 1 ELSE 0

\* Number of the four border bands (first/last margin rows, first/last margin
\* columns) of an array of shape <<R, C>> that contain cell p.
Bands(p, sh) ==
  B2I(p[1] < margin) + B2I(p[1] >= sh[1] - margin)
  + B2I(p[2] < margin) + B2I(p[2] >= sh[2] - margin)

\* Number of axes on which cell p lies within the margin of an edge.
Axes(p, sh) ==
  B2I(p[1] < margin \/ p[1] >= sh[1] - margin)
  + B2I(p[2] < margin \/ p[2] >= sh[2] - margin)

\* x multiplied by factor k times in succession.
RECURSIVE TimesFactor(_, _)
TimesFactor(x, k) == IF k = 0 THEN x ELSE TimesFactor(FMul(x, factor), k - 1)

Interior(s) == (1 .. (s.nx - 1)) \X (1 .. (s.ny - 1))
Ring(s) == {p \in DOMAIN s.Bz : p \notin Interior(s)}

\* Node-by-node forms of the update equations.
CurlAt(s, p) ==
  (FDiv(s.Ex[<<p[1], p[2]>>] - s.Ex[<<p[1], p[2] - 1>>], s.dy)
   - FDiv(s.Ey[<<p[1], p[2]>>] - s.Ey[<<p[1] - 1, p[2]>>], s.dx))

SpeedSqAt(s, p) ==
  LET v == FDiv(s.c, FSqrt(One + FMul(s.k_rel, FMul(s.Bz[p], s.Bz[p]))))
  IN  FMul(v, v)

\* Bz after the curl term, computed from the object s as it was before the call.
AfterCurl(s) ==
  [p \in DOMAIN s.Bz |->
     IF p \in Interior(s)
       THEN s.Bz[p] + FMul(FMul(s.dt, SpeedSqAt(s, p)), CurlAt(s, p))
       ELSE s.Bz[p]]

\* Bz after the source was called with AfterCurl and its return value added.
AfterSource(s, src, t) ==
  LET B1 == AfterCurl(s)
      ret == source(src, t, B1)
  IN  IF src = "None" THEN B1
      ELSE [p \in DOMAIN B1 |->
              B1[p] + (IF ret.kind = "scalar" THEN ret.val ELSE ret.val[p])]

\* What the source called with array B returns for node p (0 without a source).
Returned(src, t, B, p) ==
  IF src = "None" THEN 0
  ELSE LET ret == source(src, t, B)
       IN  IF ret.kind = "scalar" THEN ret.val ELSE ret.val[p]

ExAfter(s, B2, p) ==
  s.Ex[p] + FMul(s.dt,
     FDiv(FMul(s.alpha_emerge, FDiv(B2[<<p[1], p[2] + 1>>] - B2[p], s.dy)),
          One + FMul(s.beta_sat, FMul(s.Ex[p], s.Ex[p])))
     - FMul(s.sigma_damp, s.Ex[p]))

EyAfter(s, B2, p) ==
  s.Ey[p] + FMul(s.dt,
     FDiv(FMul(s.alpha_emerge, -FDiv(B2[<<p[1] + 1, p[2]>>] - B2[p], s.dx)),
          One + FMul(s.beta_sat, FMul(s.Ey[p], s.Ey[p])))
     - FMul(s.sigma_damp, s.Ey[p]))

AllZero(A) == \A p \in DOMAIN A : A[p] = 0

(***************************************************************************)
(* C1.  For a simulator built from valid parameters, whose source callback *)
(* never failed, len(energy_hist) equals the number of step calls made so  *)
(* far.  (Fails: with k_rel == 0 every call raises before the append.)     *)
(***************************************************************************)
C1_LenEqualsCalls ==
  (status = "ready" /\ Valid(sim) /\ src_errors = 0) => Len(sim.energy_hist) = calls

(***************************************************************************)
(* C2.  A step call on a validly constructed simulator, with no source or  *)
(* with a source that does not fail, raises no error and runs to           *)
(* completion.  (Fails: with k_rel == 0 c_eff is a bare scalar and line 40 *)
(* subscripts it.)                                                         *)
(***************************************************************************)
C2_StepNeverRaises ==
  (Stepped /\ Valid(pre) /\ last.src # "raises") => last.raised = "none"

(***************************************************************************)
(* C3.  Construction from invalid parameters (nx < 1, ny < 1, dx <= 0,     *)
(* dy <= 0 or dt <= 0) fails at construction: no simulator on which step   *)
(* can be called is produced from them.  (Fails: __init__ validates        *)
(* nothing; only a negative dimension is refused, by np.zeros, with a      *)
(* ValueError.)                                                            *)
(***************************************************************************)
C3_InvalidParamsRejected ==
  ~Valid(sim) => status # "ready"

(***************************************************************************)
(* C4 as stated.  One edge-damping pass multiplies a cell by factor once   *)
(* for each axis on which it lies within the margin of an edge, on every   *)
(* grid size: never by more than factor^2.                                 *)
(***************************************************************************)
C4_AtMostFactorSquared ==
  Completed =>
    \A f \in FieldNames : \A p \in DOMAIN sim[f] :
      sim[f][p] = TimesFactor(last.undamped[f][p], Axes(p, Shape(sim, f)))

(***************************************************************************)
(* C4 as amended.  One edge-damping pass multiplies a cell by factor once  *)
(* for each of the four border bands (first margin rows, last margin rows, *)
(* first margin columns, last margin columns) that contains it.  On an     *)
(* array with at least 2*margin rows and columns that is factor^2 in the   *)
(* corner regions, factor along the edges and no change elsewhere; on a    *)
(* smaller array opposite bands overlap and a cell is multiplied by up to  *)
(* factor^4.                                                               *)
(***************************************************************************)
C4_FactorPerBand ==
  Completed =>
    \A f \in FieldNames : \A p \in DOMAIN sim[f] :
      LET sh == Shape(sim, f)
      IN  /\ sim[f][p] = TimesFactor(last.undamped[f][p], Bands(p, sh))
          /\ Bands(p, sh) <= 4
          /\ (sh[1] >= 2 * margin /\ sh[2] >= 2 * margin) =>
               /\ Bands(p, sh) = Axes(p, sh)
               /\ sim[f][p] = TimesFactor(last.undamped[f][p], Axes(p, sh))

\* A damping pass on a grid with corner, edge and interior cells, all non-zero
\* in Bz, and non-zero border cells in Ex and Ey.
C4_Witness ==
  /\ Completed
  /\ sim.nx > 2 * margin /\ sim.ny > 2 * margin
  /\ \A k \in 0 .. 2 :
       \E p \in DOMAIN sim.Bz :
         /\ Bands(p, Shape(sim, "Bz")) = k
         /\ last.undamped.Bz[p] # 0
         /\ (k > 0) => sim.Bz[p] # last.undamped.Bz[p]
  /\ \A f \in {"Ex", "Ey"} :
       \E p \in DOMAIN sim[f] :
         /\ Bands(p, Shape(sim, f)) > 0
         /\ sim[f][p] # last.undamped[f][p]

(***************************************************************************)
(* C5.  All coupling parameters 0, zero initial fields, margin < nx/2 and  *)
(* margin < ny/2, step called with t = 0, 1, 2, ... and the constant       *)
(* source (1 for t < 3, scalar 0.0 after): after n calls every Bz cell     *)
(* farther than the margin from all four edges equals min(n, 3), and Ex,   *)
(* Ey are all zero.  (Fails: k_rel == 0, so no call gets past line 40.)    *)
(***************************************************************************)
C5_ConstantSourceScenario ==
  ( /\ status = "ready" /\ Valid(sim) /\ const_run
    /\ sim.k_rel = 0 /\ sim.alpha_emerge = 0 /\ sim.beta_sat = 0 /\ sim.sigma_damp = 0
    /\ 2 * margin < sim.nx /\ 2 * margin < sim.ny )
  => /\ \A p \in DOMAIN sim.Bz :
          Bands(p, Shape(sim, "Bz")) = 0 =>
            sim.Bz[p] = One * (IF calls < SrcSteps THEN calls ELSE SrcSteps)
     /\ AllZero(sim.Ex) /\ AllZero(sim.Ey)

(***************************************************************************)
(* C7.  energy_hist holds exactly one entry per step call that returned    *)
(* normally: a call that raises (from the c_eff subscript or from the      *)
(* source callback) adds no entry, a call that returns adds exactly one    *)
(* at the end, and no call alters or removes an earlier entry.             *)
(***************************************************************************)
C7_OneEntryPerReturn ==
  /\ Len(sim.energy_hist) = returned
  /\ Stepped =>
       /\ Len(sim.energy_hist) = Len(pre.energy_hist) + B2I(last.raised = "none")
       /\ SubSeq(sim.energy_hist, 1, Len(pre.energy_hist)) = pre.energy_hist

\* A call that raised in the source callback after an earlier call returned.
C7_Witness ==
  /\ calls = 2 /\ returned = 1
  /\ last.raised = "SourceError"
  /\ sim.Bz # pre.Bz
  /\ Len(sim.energy_hist) = 1 /\ sim.energy_hist[1] # 0

(***************************************************************************)
(* C8.  A step call with no source, or with a source returning 0.0, leaves *)
(* every outer-ring Bz cell (i in {0, nx} or j in {0, ny}) equal to its    *)
(* value before the call times the cell's edge-damping multiplier,         *)
(* whatever Ex, Ey, c and k_rel are: the curl term never reaches the ring. *)
(***************************************************************************)
C8_RingOnlyDamped ==
  (Stepped /\ NoInjection) =>
    \A p \in Ring(pre) :
      sim.Bz[p] = TimesFactor(pre.Bz[p], Bands(p, Shape(pre, "Bz")))

\* A source-free call that changed an interior node through the curl term
\* while a non-zero ring cell was only damped.
C8_Witness ==
  /\ Completed /\ NoInjection
  /\ \E p \in Interior(pre) :
       /\ CurlAt(pre, p) # 0
       /\ last.undamped.Bz[p] # pre.Bz[p]
  /\ \E p \in Ring(pre) : pre.Bz[p] # 0 /\ sim.Bz[p] # pre.Bz[p]

(***************************************************************************)
(* C9.  Order of the data dependencies inside one step call: c_eff and     *)
(* curl_E are taken from Bz, Ex, Ey as they were before the call; the      *)
(* source is called with Bz after the interior update; the Ex/Ey update    *)
(* uses the curl of Bz after the source injection, with the Ex/Ey of       *)
(* before the call in the saturation and damping terms.  So a source       *)
(* injected in a call changes Ex/Ey in that same call, and reaches         *)
(* interior Bz through the curl term only in the next call.                *)
(***************************************************************************)
C9_DependencyOrder ==
  Completed =>
    LET B2 == AfterSource(pre, last.src, last.t)
    IN  /\ \A p \in DOMAIN sim.Bz :
             /\ last.undamped.Bz[p] = B2[p]
             /\ sim.Bz[p] = TimesFactor(B2[p], Bands(p, Shape(pre, "Bz")))
        /\ \A p \in DOMAIN sim.Ex :
             sim.Ex[p] = TimesFactor(ExAfter(pre, B2, p), Bands(p, Shape(pre, "Ex")))
        /\ \A p \in DOMAIN sim.Ey :
             sim.Ey[p] = TimesFactor(EyAfter(pre, B2, p), Bands(p, Shape(pre, "Ey")))
        /\ (AllZero(pre.Ex) /\ AllZero(pre.Ey)) =>
             \A p \in Interior(pre) :
               last.undamped.Bz[p] = pre.Bz[p] + Returned(last.src, last.t, pre.Bz, p)

\* A call whose source echoed the Bz it was handed, at a node the curl term had
\* just changed, with c_eff below c there, and whose injection moved Ex.
C9_Witness ==
  /\ Completed /\ last.src = "echo"
  /\ pre.alpha_emerge # 0
  /\ \E p \in Interior(pre) :
       /\ AfterCurl(pre)[p] # pre.Bz[p]
       /\ SpeedSqAt(pre, p) # FMul(pre.c, pre.c)
       /\ last.undamped.Bz[p] = 2 * AfterCurl(pre)[p]
  /\ \E p \in DOMAIN sim.Ex :
       ExAfter(pre, AfterSource(pre, last.src, last.t), p) # ExAfter(pre, AfterCurl(pre), p)

(***************************************************************************)
(* C10.  curl_E yields exactly one value per interior Bz node (i, j),      *)
(* 1 <= i <= nx-1, 1 <= j <= ny-1 (none when nx = 1 or ny = 1), equal to   *)
(* (Ex[i,j] - Ex[i,j-1])/dy - (Ey[i,j] - Ey[i-1,j])/dx; every index read   *)
(* lies inside Ex of shape (nx+1, ny) and Ey of shape (nx, ny+1); and the  *)
(* interior Bz update adds to node (i, j) the curl value of that (i, j).   *)
(***************************************************************************)
C10_CurlPerInteriorNode ==
  status = "ready" =>
    /\ DOMAIN sim.Ex = Idx(sim.nx + 1, sim.ny)
    /\ DOMAIN sim.Ey = Idx(sim.nx, sim.ny + 1)
    /\ DOMAIN curl_E(sim) = Idx(sim.nx - 1, sim.ny - 1)
    /\ (sim.nx = 1 \/ sim.ny = 1) => DOMAIN curl_E(sim) = {}
    /\ \A p \in Interior(sim) :
         /\ {<<p[1], p[2]>>, <<p[1], p[2] - 1>>} \subseteq DOMAIN sim.Ex
         /\ {<<p[1], p[2]>>, <<p[1] - 1, p[2]>>} \subseteq DOMAIN sim.Ey
         /\ curl_E(sim)[<<p[1] - 1, p[2] - 1>>] = CurlAt(sim, p)
    /\ (Completed /\ NoInjection) =>
         \A p \in Interior(pre) :
           last.undamped.Bz[p] =
             pre.Bz[p] + FMul(FMul(pre.dt, SpeedSqAt(pre, p)),
                              curl_E(pre)[<<p[1] - 1, p[2] - 1>>])

\* A grid with two interior nodes whose curl values differ and are non-zero,
\* after a call that applied them.
C10_Witness ==
  /\ Completed /\ NoInjection
  /\ Cardinality(Interior(sim)) >= 2
  /\ \E p, q \in Interior(pre) :
       /\ CurlAt(pre, p) # 0
       /\ CurlAt(pre, q) # CurlAt(pre, p)
       /\ last.undamped.Bz[p] # pre.Bz[p]
  /\ \E p \in Interior(sim) : CurlAt(sim, p) # 0

====
